---- MODULE Spec2Model ----
(***************************************************************************)
(* Brand audit pipeline: POST /api/analyze and the three stages it drives  *)
(* (analyzeWebsite, extractVisualAssets, generateAIInsights).              *)
(*                                                                         *)
(* The repository holds several versions of each file; a deployment is one *)
(* version of each, chosen in Init:                                        *)
(*   route     "v1"  visualExtractor.ts:354  (defaults and Math.random)    *)
(*             "v2"  visualExtractor.ts:610  ("|| null")                   *)
(*   analyzer  "static"      websiteAnalyzer.ts:19  (fetch, 30 s abort)    *)
(*             "proxy"       aiAnalyzer.ts:380      (allorigins, 15 s)     *)
(*             "playwright"  unnamed/part_002:19    (headless browser)     *)
(*   extractor "static"      visualExtractor.ts:9   (regex + HEAD probes)  *)
(*             "playwright"  websiteAnalyzer.ts:247 (headless browser)     *)
(*   apiKey    whether process.env.OPENAI_API_KEY is set                   *)
(*                                                                         *)
(* Values are modelled by their provenance: where a field's value came     *)
(* from.  JavaScript truthiness is kept: null/undefined/''/0 are falsy,    *)
(* an empty array is truthy.                                               *)
(*                                                                         *)
(* Spec is the request.  Library functions are also called on their own,   *)
(* on a fixture, with concrete values: ScoreSpec (calculateRealisticScores)*)
(* ColourSpec (extractColors, extractColorsWithPlaywright), ParseSpec      *)
(* (parseHTMLContent on markup), InputSpec (brand input normalisation),    *)
(* IndustrySpec (detectIndustryFromContent), LogoSpec, FontSpec and        *)
(* AssetsSpec (the visual sub-extractions) and AISpec (generateAIInsights).*)
(* PollerSpec is the progress page polling /api/progress.                  *)
(***************************************************************************)
EXTENDS Naturals, Sequences, FiniteSets

(* ---------------- bounds ---------------- *)

MaxBrands == 2

TickMs == 15000

MaxClockMs == 60000

(* ---------------- program constants ---------------- *)

StaticTimeoutMs == 30000

ProxyTimeoutMs == 15000

(* The brand inputs a request may carry, as token sequences: a domain, a   *)
(* company name, a URL with scheme.                                        *)
BrandPool ==
  << <<"acme", ".", "com">>,
     <<"Globex", " ", "Inc">>,
     <<"http", "s://", "initech", ".", "io">>,
     <<"Umbrella">> >>

Routes == {"v1", "v2"}

Analyzers == {"static", "proxy", "playwright"}

Extractors == {"static", "playwright"}

(* ---------------- provenance of values ---------------- *)

\* falsy in JavaScript: null, undefined, '' and 0
Falsy == {"null", "zero"}

Truthy(v) == v \notin Falsy

\* a || b
Or(a, b) == IF Truthy(a) THEN a ELSE b

\* values that were not obtained from the site or from the AI model
Synthetic == {"random", "default", "template", "placeholder", "generated"}

(* ---------------- brand input normalisation ---------------- *)

Includes(s, tok) == \E i \in 1..Len(s) : s[i] = tok

RECURSIVE Lower(_)
Lower(s) ==
  IF s = <<>> THEN <<>>
  ELSE LET h == Head(s)
           l == CASE h = "Globex" -> "globex"
                  [] h = "Inc" -> "inc"
                  [] h = "Umbrella" -> "umbrella"
                  [] h = "Acme" -> "acme"
                  [] OTHER -> h
       IN <<l>> \o Lower(Tail(s))

RECURSIVE StripSpaces(_)
StripSpaces(s) ==
  IF s = <<>> THEN <<>>
  ELSE IF Head(s) = " " THEN StripSpaces(Tail(s))
       ELSE <<Head(s)>> \o StripSpaces(Tail(s))

RECURSIVE BeforeFirstDot(_)
BeforeFirstDot(s) ==
  IF s = <<>> \/ Head(s) = "." THEN <<>>
  ELSE <<Head(s)>> \o BeforeFirstDot(Tail(s))

\* brandInput.startsWith('http'): the scheme, or a name that begins with
\* these four letters
StartsWithHttp(s) == s # <<>> /\ Head(s) \in {"http", "httpbin"}

\* brandInput.toLowerCase().includes('.') ? (startsWith('http') ? input
\*   : 'https://' + input) : 'https://' + lower-without-spaces + '.com'
Website(brandInput) ==
  IF Includes(Lower(brandInput), ".")
  THEN IF StartsWithHttp(brandInput) THEN brandInput
       ELSE <<"http", "s://">> \o brandInput
  ELSE <<"http", "s://">> \o StripSpaces(Lower(brandInput)) \o <<".", "com">>

\* brandInput.includes('.') ? brandInput.split('.')[0] : brandInput
BrandName(brandInput) ==
  IF Includes(brandInput, ".") THEN BeforeFirstDot(brandInput) ELSE brandInput

(* ---------------- records built by the stages ---------------- *)

\* a const of the loop body that has not been assigned in this iteration
UnsetWebsiteData == [content |-> "unset", metaDescription |-> "unset"]

UnsetVisualAssets == [logo |-> "unset", colors |-> "unset", fonts |-> "unset"]

\* bookkeeping of the brand being processed (not program state): what the
\* environment did to it and which later stages were started for it
FreshCur == [fetch |-> "none", events |-> {}, prompts |-> <<>>]

\* parseHTMLContent: the text left after stripping tags, and the meta
\* description when the markup has one
ParseHTMLContent(html) ==
  [content |-> IF html = "page" THEN "text" ELSE "empty",
   metaDescription |-> IF html \in {"page", "scripts_only"}
                       THEN "extracted" ELSE "null"]

\* extractWebsiteDataWithPlaywright: body.textContent() || '' and
\* meta[name=description] content || ''
ExtractWebsiteDataWithPlaywright(dom) ==
  [content |-> IF dom = "page" THEN "text" ELSE "empty",
   metaDescription |-> IF dom = "page" THEN "extracted" ELSE "null"]

\* createFallbackWebsiteData: defined in every analyzer version, called by
\* none of them
CreateFallbackWebsiteData ==
  [content |-> "placeholder", metaDescription |-> "placeholder"]

\* createFallbackVisualAssets
CreateFallbackVisualAssets ==
  [logo |-> "placeholder", colors |-> "generated", fonts |-> "default"]

\* the static extractVisualAssets: extractColors / extractFonts scan
\* websiteData.content, extractLogo probes logo URLs with HEAD requests
ExtractVisualAssetsStatic(wd, logoFound, cssInText) ==
  [logo |-> IF logoFound THEN "extracted" ELSE "placeholder",
   colors |-> IF wd.content = "text" /\ cssInText THEN "extracted"
              ELSE "generated",
   fonts |-> IF wd.content = "text" /\ cssInText THEN "extracted"
             ELSE "default"]

\* the return statement of the playwright extractVisualAssets
ExtractVisualAssetsPlaywright(found) ==
  [logo |-> IF found THEN "extracted" ELSE "null",
   colors |-> IF found THEN "extracted" ELSE "emptyList",
   fonts |-> IF found THEN "extracted" ELSE "emptyList"]

\* calculateRealisticScores + generateIndustrySpecificInsights
GenerateComprehensiveFallbackInsights(wd, va) ==
  [isNull |-> FALSE, overallScore |-> "random", description |-> "template",
   positioning |-> "template", seoScore |-> "heuristic",
   socialScore |-> "random", strengths |-> "template"]

\* JavaScript null returned where an insights object is expected
JsNull ==
  [isNull |-> TRUE, overallScore |-> "null", description |-> "null",
   positioning |-> "null", seoScore |-> "null", socialScore |-> "null",
   strengths |-> "null"]

UnsetInsights ==
  [isNull |-> FALSE, overallScore |-> "unset", description |-> "unset",
   positioning |-> "unset", seoScore |-> "unset", socialScore |-> "unset",
   strengths |-> "unset"]

\* bookkeeping of a finished brand: the bookkeeping c of its run, how the
\* iteration ended and the stage outputs it had by then
HistoryEntry(c, wd, va, ai) ==
  [fetch |-> c.fetch, events |-> c.events, prompts |-> c.prompts,
   threw |-> FALSE, msg |-> "none", wd |-> wd, va |-> va, ai |-> ai]

OpenAIOutcomes ==
  {"network_error", "http_error", "no_content", "invalid_json",
   "json_full", "json_noswot", "json_string", "json_null"}

\* generateOpenAIInsights: rejects, or returns JSON.parse(aiResponse) as is
GenerateOpenAIInsights(outcome) ==
  CASE outcome \in {"network_error", "http_error", "no_content", "invalid_json"}
         -> [threw |-> TRUE, value |-> JsNull]
    [] outcome = "json_full"
         -> [threw |-> FALSE,
             value |-> [isNull |-> FALSE, overallScore |-> "ai", description |-> "ai",
                        positioning |-> "ai", seoScore |-> "ai",
                        socialScore |-> "ai", strengths |-> "ai"]]
    [] outcome = "json_noswot"
         -> [threw |-> FALSE,
             value |-> [isNull |-> FALSE, overallScore |-> "ai", description |-> "ai",
                        positioning |-> "ai", seoScore |-> "ai",
                        socialScore |-> "ai", strengths |-> "null"]]
    [] outcome = "json_string"
         -> [threw |-> FALSE,
             value |-> [isNull |-> FALSE, overallScore |-> "null", description |-> "null",
                        positioning |-> "null", seoScore |-> "null",
                        socialScore |-> "null", strengths |-> "null"]]
    [] OTHER -> [threw |-> FALSE, value |-> JsNull]

\* generateAIInsights once the OpenAI request has settled
GenerateAIInsights(wd, va, outcome) ==
  LET r == GenerateOpenAIInsights(outcome)
  IN IF r.threw THEN GenerateComprehensiveFallbackInsights(wd, va)
     ELSE r.value

\* variant: the catch block fills the entry the way createFallbackWebsiteData
\* fills a page
ErrorEntry_Placeholder(brandInput, msg) ==
  [name |-> brandInput, website |-> brandInput, score |-> "random",
   error |-> msg, description |-> "placeholder", positioning |-> "missing",
   seoScore |-> "missing", socialScore |-> "missing", logo |-> "missing",
   colors |-> "missing", fonts |-> "missing", strengths |-> "missing"]

\* the record pushed by the catch block of the batch loop
ErrorEntry(brandInput, msg) ==
  [name |-> brandInput, website |-> brandInput, score |-> "zero",
   error |-> msg, description |-> "missing", positioning |-> "missing",
   seoScore |-> "missing", socialScore |-> "missing", logo |-> "missing",
   colors |-> "missing", fonts |-> "missing", strengths |-> "missing"]

\* the brandAnalysis object of the given route version
BrandAnalysis(route, brandInput, wd, va, ai) ==
  IF route = "v1"
  THEN [name |-> BrandName(brandInput), website |-> Website(brandInput),
        score |-> Or(ai.overallScore, "random"), error |-> "none",
        description |-> Or(Or(ai.description, wd.metaDescription), "default"),
        positioning |-> Or(ai.positioning, "default"),
        seoScore |-> Or(ai.seoScore, "random"),
        socialScore |-> Or(ai.socialScore, "random"),
        logo |-> va.logo,
        colors |-> Or(va.colors, "default"),
        fonts |-> Or(va.fonts, "default"),
        strengths |-> Or(ai.strengths, "default")]
  ELSE [name |-> BrandName(brandInput), website |-> Website(brandInput),
        score |-> Or(ai.overallScore, "null"), error |-> "none",
        description |-> Or(Or(ai.description, wd.metaDescription), "null"),
        positioning |-> Or(ai.positioning, "null"),
        seoScore |-> Or(ai.seoScore, "null"),
        socialScore |-> Or(ai.socialScore, "null"),
        logo |-> Or(va.logo, "null"),
        colors |-> Or(va.colors, "emptyList"),
        fonts |-> Or(va.fonts, "emptyList"),
        strengths |-> Or(ai.strengths, "emptyList")]

(* ---------------- state ---------------- *)

VARIABLES
  deploy,          \* the versions deployed and whether the API key is set
  brands,          \* the request body's brands array
  idx,             \* position of the for..of loop in brands
  pc,              \* the await the request is suspended at
  analysisResults, \* the array the loop pushes to
  response,        \* "pending", or the status of the response sent
  websiteData,     \* const websiteData of the current iteration
  visualAssets,    \* const visualAssets of the current iteration
  timeoutId,       \* TRUE while the abort timer of analyzeWebsite is armed
  elapsed,         \* ms since the current fetch attempt was issued
  browser,         \* let browser of the running playwright function
  openBrowsers,    \* headless browsers launched and not yet closed
  pending,         \* completion waiting for the finally block to finish
  cur,             \* bookkeeping of the current brand
  last,            \* bookkeeping of the brand whose record was pushed last
  summary,         \* the summary of the report sent
  fixture,         \* arguments of a library function called on its own
  returned,        \* what the calls on the fixture returned, in call order
  progressPage     \* the progress page: its script variables and its view

\* the variables of a direct call of a library function and of the progress
\* page, outside a request
unit == <<fixture, returned, progressPage>>

vars ==
  <<deploy, brands, idx, pc, analysisResults, response, websiteData,
    visualAssets, timeoutId, elapsed, browser, openBrowsers, pending, cur,
    last, summary, unit>>

\* the progress page has not been opened
NoPage ==
  [section |-> "input", interval |-> "none", pollingInterval |-> 3000,
   timeoutCount |-> 0, inFlight |-> 0, job |-> "none", handled |-> "none"]

\* no report has been built
NoSummary == [totalBrands |-> 0, successfulAnalyses |-> 0]

NoPending ==
  [kind |-> "none", msg |-> "none", wd |-> UnsetWebsiteData,
   va |-> UnsetVisualAssets]

Init ==
  /\ deploy \in [route : Routes, analyzer : Analyzers, extractor : Extractors,
                 apiKey : BOOLEAN]
  /\ \E n \in 0..MaxBrands : brands = [i \in 1..n |-> BrandPool[((i - 1) % Len(BrandPool)) + 1]]
  /\ idx = 1
  /\ pc = "start"
  /\ analysisResults = <<>>
  /\ response = "pending"
  /\ websiteData = UnsetWebsiteData
  /\ visualAssets = UnsetVisualAssets
  /\ timeoutId = FALSE
  /\ elapsed = 0
  /\ browser = "undefined"
  /\ openBrowsers = 0
  /\ pending = NoPending
  /\ cur = FreshCur
  /\ last = HistoryEntry(FreshCur, UnsetWebsiteData, UnsetVisualAssets,
                         UnsetInsights)
  /\ summary = NoSummary
  /\ fixture = "none"
  /\ returned = <<>>
  /\ progressPage = NoPage


(* ---------------- the batch loop of POST ---------------- *)

\* analysisResults.push(entry) at the end of an iteration; the consts of the
\* loop body go out of scope and the for..of loop advances
PushAndAdvance(entry, h) ==
  /\ analysisResults' = Append(analysisResults, entry)
  /\ last' = h
  /\ idx' = idx + 1
  /\ pc' = "loop"
  /\ websiteData' = UnsetWebsiteData
  /\ visualAssets' = UnsetVisualAssets
  /\ cur' = FreshCur

\* variant: the catch block leaves the loop instead of recording the failure
CatchBrandError_Break(msg, h) ==
  /\ idx' = Len(brands) + 1
  /\ pc' = "loop"
  /\ websiteData' = UnsetWebsiteData
  /\ visualAssets' = UnsetVisualAssets
  /\ cur' = FreshCur
  /\ UNCHANGED <<analysisResults, last>>

\* catch (brandError) of the batch loop: record the failure and go on
CatchBrandError(msg, h) ==
  PushAndAdvance(ErrorEntry(brands[idx], msg),
                 [h EXCEPT !.threw = TRUE, !.msg = msg])

\* step 4 of the loop body.  Reading a property of null throws a TypeError
\* (route v1 at aiInsights.overallScore, v2 in the console.log before it),
\* which the catch of the loop receives.
CompileBrand(wd, va, ai, c) ==
  IF ai.isNull
  THEN CatchBrandError("TypeError: Cannot read properties of null",
                       HistoryEntry(c, wd, va, ai))
  ELSE PushAndAdvance(BrandAnalysis(deploy.route, brands[idx], wd, va, ai),
                      HistoryEntry(c, wd, va, ai))

\* generateAIInsights has resolved with ai; c is the brand's bookkeeping
ReturnInsights(ai, c) ==
  CompileBrand(websiteData, visualAssets, ai, c)

\* variant: generateAIInsights calls the OpenAI API whether or not
\* OPENAI_API_KEY is set
ReturnVisualAssets_AlwaysRequest(va) ==
  /\ visualAssets' = va
  /\ pc' = "ai_await"
  /\ cur' = [cur EXCEPT !.events = @ \cup {"ai", "ai_request"},
                        !.prompts = Append(@, "detailed")]
  /\ UNCHANGED <<idx, analysisResults, last, websiteData>>

\* extractVisualAssets has resolved with va: step 3, generateAIInsights.
\* With a key the OpenAI request is issued and awaited; without one the
\* comprehensive fallback returns synchronously.
ReturnVisualAssets(va) ==
  IF deploy.apiKey
  THEN /\ visualAssets' = va
       /\ pc' = "ai_await"
       /\ cur' = [cur EXCEPT !.events = @ \cup {"ai", "ai_request"},
                             !.prompts = Append(@, "detailed")]
       /\ UNCHANGED <<idx, analysisResults, last, websiteData>>
  ELSE CompileBrand(websiteData, va,
                    GenerateComprehensiveFallbackInsights(websiteData, va),
                    [cur EXCEPT !.events = @ \cup {"ai"}])

\* analyzeWebsite has resolved with wd: step 2, extractVisualAssets, up to
\* its first await (a HEAD probe, or the import of playwright)
ReturnWebsiteData(wd) ==
  /\ websiteData' = wd
  /\ cur' = [cur EXCEPT !.fetch = "ok",
                        !.events = @ \cup (IF deploy.extractor = "static"
                                           THEN {"visual", "logo_probe"}
                                           ELSE {"visual"})]
  /\ pc' = IF deploy.extractor = "static" THEN "eva_probe" ELSE "eva_import"
  /\ UNCHANGED <<idx, analysisResults, last, visualAssets>>

\* variant: the catch of analyzeWebsite returns createFallbackWebsiteData(url,
\* error) and the loop body goes on to step 2
AnalyzeWebsiteThrows_Fallback(msg) ==
  /\ websiteData' = CreateFallbackWebsiteData
  /\ cur' = [cur EXCEPT !.fetch = "failed",
                        !.events = @ \cup (IF deploy.extractor = "static"
                                           THEN {"visual", "logo_probe"}
                                           ELSE {"visual"})]
  /\ pc' = IF deploy.extractor = "static" THEN "eva_probe" ELSE "eva_import"
  /\ UNCHANGED <<idx, analysisResults, last, visualAssets>>

\* catch of analyzeWebsite: "Don't return fake data - throw the error so the
\* API knows it failed"; the rejection lands in the catch of the batch loop
AnalyzeWebsiteThrows(msg) ==
  CatchBrandError(msg, HistoryEntry([cur EXCEPT !.fetch = "failed"],
                                    UnsetWebsiteData, UnsetVisualAssets,
                                    UnsetInsights))

RejectRequest ==
  /\ pc = "start"
  /\ Len(brands) = 0
  /\ pc' = "done"
  /\ response' = "400"
  /\ UNCHANGED <<unit, summary, deploy, brands, idx, analysisResults, websiteData,
                 visualAssets, timeoutId, elapsed, browser, openBrowsers,
                 pending, cur, last>>

\* one iteration of the loop starts: normalise the input and call
\* analyzeWebsite, which runs up to its first await
StartBrand ==
  /\ pc \in {"start", "loop"}
  /\ idx <= Len(brands)
  /\ IF deploy.analyzer = "playwright"
     THEN /\ pc' = "aw_import"
          /\ UNCHANGED timeoutId
     ELSE /\ pc' = "aw_headers"
          /\ timeoutId' = TRUE
  /\ elapsed' = 0
  /\ UNCHANGED <<unit, summary, deploy, brands, idx, analysisResults, response, websiteData,
                 visualAssets, browser, openBrowsers, pending, cur, last>>

\* analysisResults.filter((r) => !r.error) keeps the records this is false of
Failed(r) == Truthy(r.error) /\ r.error # "none"

\* variant: successes are counted the way route v1 counts the records that
\* enter its average, filter((r) => !r.error && r.score)
Summary_CountsScored(results) ==
  [totalBrands |-> Len(results),
   successfulAnalyses |->
     Len(SelectSeq(results, LAMBDA r : ~Failed(r) /\ Truthy(r.score)))]

\* the summary of finalReport
Summary(results) ==
  [totalBrands |-> Len(results),
   successfulAnalyses |-> Len(SelectSeq(results, LAMBDA r : ~Failed(r)))]

\* the loop is over: the report is built and sent
FinishReport ==
  /\ pc = "loop"
  /\ idx > Len(brands)
  /\ pc' = "done"
  /\ response' = "200"
  /\ summary' = Summary(analysisResults)
  /\ UNCHANGED <<unit, deploy, brands, idx, analysisResults, websiteData,
                 visualAssets, timeoutId, elapsed, browser, openBrowsers,
                 pending, cur, last>>

(* ---------------- analyzeWebsite, fetch versions ---------------- *)

FetchTimeoutMs ==
  IF deploy.analyzer = "proxy" THEN ProxyTimeoutMs ELSE StaticTimeoutMs

\* time passes while the request is suspended in fetch() or in the body
\* read; an armed timer fires no later than its deadline
Tick ==
  /\ pc \in {"aw_headers", "aw_body"}
  /\ ~(timeoutId /\ elapsed >= FetchTimeoutMs)
  /\ elapsed + TickMs <= MaxClockMs
  /\ elapsed' = IF timeoutId /\ elapsed + TickMs > FetchTimeoutMs
                THEN FetchTimeoutMs ELSE elapsed + TickMs
  /\ UNCHANGED <<unit, summary, deploy, brands, idx, pc, analysisResults, response,
                 websiteData, visualAssets, timeoutId, browser, openBrowsers,
                 pending, cur, last>>

\* setTimeout(() => controller.abort(), ...) fires: fetch rejects
AbortFires ==
  /\ pc = "aw_headers"
  /\ timeoutId
  /\ elapsed >= FetchTimeoutMs
  /\ timeoutId' = FALSE
  /\ elapsed' = 0
  /\ AnalyzeWebsiteThrows("Failed to fetch website: This operation was aborted")
  /\ UNCHANGED <<unit, summary, deploy, brands, response, browser, openBrowsers, pending>>

\* fetch rejects for a reason of its own (DNS, refused, TLS)
FetchRejects ==
  /\ pc = "aw_headers"
  /\ timeoutId' = FALSE
  /\ elapsed' = 0
  /\ AnalyzeWebsiteThrows("Failed to fetch website: fetch failed")
  /\ UNCHANGED <<unit, summary, deploy, brands, response, browser, openBrowsers, pending>>

\* fetch resolves with the response headers: clearTimeout(timeoutId), then
\* the status check, then the body read is awaited
HeadersArrive ==
  /\ pc = "aw_headers"
  /\ timeoutId' = FALSE
  /\ \E ok \in BOOLEAN :
       IF ok
       THEN /\ pc' = "aw_body"
            /\ UNCHANGED <<idx, analysisResults, websiteData, visualAssets,
                           cur, last, elapsed>>
       ELSE /\ elapsed' = 0
            /\ AnalyzeWebsiteThrows("Failed to fetch website: HTTP status")
  /\ UNCHANGED <<unit, summary, deploy, brands, response, browser, openBrowsers, pending>>

\* response.text() / response.json() resolves
BodyArrives ==
  /\ pc = "aw_body"
  /\ elapsed' = 0
  /\ \E body \in {"page", "scripts_only", "empty", "target_error"} :
       IF deploy.analyzer = "proxy" /\ body = "target_error"
       THEN AnalyzeWebsiteThrows("Failed to fetch website: Website returned status")
       ELSE /\ body # "target_error"
            /\ ReturnWebsiteData(ParseHTMLContent(body))
  /\ UNCHANGED <<unit, summary, deploy, brands, response, timeoutId, browser, openBrowsers,
                 pending>>

\* the body read rejects (connection reset, or a proxy body that is not JSON)
BodyFails ==
  /\ pc = "aw_body"
  /\ elapsed' = 0
  /\ AnalyzeWebsiteThrows("Failed to fetch website: body read failed")
  /\ UNCHANGED <<unit, summary, deploy, brands, response, timeoutId, browser, openBrowsers,
                 pending>>


(* ---------------- analyzeWebsite, playwright version ---------------- *)

Throwing(msg) ==
  [kind |-> "throw", msg |-> msg, wd |-> UnsetWebsiteData,
   va |-> UnsetVisualAssets]

ReturningWebsiteData(wd) ==
  [kind |-> "return", msg |-> "none", wd |-> wd, va |-> UnsetVisualAssets]

ReturningVisualAssets(va) ==
  [kind |-> "return", msg |-> "none", wd |-> UnsetWebsiteData, va |-> va]

\* the completion of analyzeWebsite reaches its caller
AnalyzeWebsiteSettles(c) ==
  IF c.kind = "throw" THEN AnalyzeWebsiteThrows(c.msg)
  ELSE ReturnWebsiteData(c.wd)

\* variant: browser.close() only at the end of the try block, so that a
\* throwing completion leaves without closing
AnalyzeWebsiteFinally_NoClose(c) ==
  IF browser = "open" /\ c.kind = "return"
  THEN /\ pc' = "aw_close"
       /\ pending' = c
       /\ UNCHANGED <<idx, analysisResults, websiteData, visualAssets, cur,
                      last, browser, openBrowsers>>
  ELSE /\ AnalyzeWebsiteSettles(c)
       /\ UNCHANGED <<browser, openBrowsers, pending>>

\* finally { if (browser) { await browser.close() } } of analyzeWebsite,
\* entered with the completion c of the try/catch
AnalyzeWebsiteFinally(c) ==
  IF browser = "open"
  THEN /\ pc' = "aw_close"
       /\ pending' = c
       /\ UNCHANGED <<idx, analysisResults, websiteData, visualAssets, cur,
                      last, browser, openBrowsers>>
  ELSE /\ AnalyzeWebsiteSettles(c)
       /\ UNCHANGED <<browser, openBrowsers, pending>>

\* await import('playwright'), before the try: a failure rejects the call
\* with the raw error
AW_Import ==
  /\ pc = "aw_import"
  /\ \E ok \in BOOLEAN :
       IF ok
       THEN /\ pc' = "aw_launch"
            /\ UNCHANGED <<idx, analysisResults, websiteData, visualAssets,
                           cur, last>>
       ELSE AnalyzeWebsiteThrows("Cannot find module 'playwright'")
  /\ UNCHANGED <<unit, summary, deploy, brands, response, timeoutId, elapsed, browser,
                 openBrowsers, pending>>

\* browser = await chromium.launch(...)
AW_Launch ==
  /\ pc = "aw_launch"
  /\ \E ok \in BOOLEAN :
       IF ok
       THEN /\ browser' = "open"
            /\ openBrowsers' = openBrowsers + 1
            /\ pc' = "aw_goto"
            /\ cur' = [cur EXCEPT !.events = @ \cup {"aw_launch"}]
            /\ UNCHANGED <<idx, analysisResults, websiteData, visualAssets,
                           last, pending>>
       ELSE AnalyzeWebsiteFinally(Throwing("Failed to analyze website: launch failed"))
  /\ UNCHANGED <<unit, summary, deploy, brands, response, timeoutId, elapsed>>

\* await page.goto(url, { waitUntil: 'networkidle' }), 30 s default timeout
AW_Goto ==
  /\ pc = "aw_goto"
  /\ \E outcome \in {"loaded", "timeout", "error"} :
       IF outcome = "loaded"
       THEN /\ pc' = "aw_extract"
            /\ UNCHANGED <<idx, analysisResults, websiteData, visualAssets,
                           cur, last, browser, openBrowsers, pending>>
       ELSE AnalyzeWebsiteFinally(
              Throwing(IF outcome = "timeout"
                       THEN "Failed to analyze website: Timeout 30000ms exceeded"
                       ELSE "Failed to analyze website: navigation failed"))
  /\ UNCHANGED <<unit, summary, deploy, brands, response, timeoutId, elapsed>>

\* await extractWebsiteDataWithPlaywright(page, url)
AW_Extract ==
  /\ pc = "aw_extract"
  /\ \E dom \in {"page", "empty", "error"} :
       IF dom = "error"
       THEN AnalyzeWebsiteFinally(Throwing("Failed to analyze website: extraction failed"))
       ELSE AnalyzeWebsiteFinally(
              ReturningWebsiteData(ExtractWebsiteDataWithPlaywright(dom)))
  /\ UNCHANGED <<unit, summary, deploy, brands, response, timeoutId, elapsed>>

\* browser.close() resolves and the pending completion is delivered
AW_BrowserClosed ==
  /\ pc = "aw_close"
  /\ browser' = "undefined"
  /\ openBrowsers' = openBrowsers - 1
  /\ pending' = NoPending
  /\ AnalyzeWebsiteSettles(pending)
  /\ UNCHANGED <<unit, summary, deploy, brands, response, timeoutId, elapsed>>

(* ---------------- extractVisualAssets ---------------- *)

\* static version: the HEAD probes of extractLogo settle and the function
\* returns; every sub-extraction has its own try/catch
EVA_Static ==
  /\ pc = "eva_probe"
  /\ \E logoFound \in BOOLEAN, cssInText \in BOOLEAN :
       ReturnVisualAssets(ExtractVisualAssetsStatic(websiteData, logoFound,
                                                    cssInText))
  /\ UNCHANGED <<unit, summary, deploy, brands, response, timeoutId, elapsed, browser,
                 openBrowsers, pending>>

\* variant: extractVisualAssets returns without a finally block; the browser
\* it launched stays open
ExtractVisualAssetsFinally_NoClose(c) ==
  /\ ReturnVisualAssets(c.va)
  /\ UNCHANGED <<browser, openBrowsers, pending>>

\* finally { if (browser) { await browser.close() } } of extractVisualAssets
ExtractVisualAssetsFinally(c) ==
  IF browser = "open"
  THEN /\ pc' = "eva_close"
       /\ pending' = c
       /\ UNCHANGED <<idx, analysisResults, websiteData, visualAssets, cur,
                      last, browser, openBrowsers>>
  ELSE /\ ReturnVisualAssets(c.va)
       /\ UNCHANGED <<browser, openBrowsers, pending>>

\* await import('playwright'), before the try: a failure rejects
\* extractVisualAssets, and the catch of the batch loop receives it
EVA_Import ==
  /\ pc = "eva_import"
  /\ \E ok \in BOOLEAN :
       IF ok
       THEN /\ pc' = "eva_launch"
            /\ UNCHANGED <<idx, analysisResults, websiteData, visualAssets,
                           cur, last>>
       ELSE CatchBrandError("Cannot find module 'playwright'",
                            HistoryEntry(cur, websiteData, UnsetVisualAssets,
                                         UnsetInsights))
  /\ UNCHANGED <<unit, summary, deploy, brands, response, timeoutId, elapsed, browser,
                 openBrowsers, pending>>

\* browser = await chromium.launch({ headless: true }); a failure is caught
\* and answered with createFallbackVisualAssets
EVA_Launch ==
  /\ pc = "eva_launch"
  /\ \E ok \in BOOLEAN :
       IF ok
       THEN /\ browser' = "open"
            /\ openBrowsers' = openBrowsers + 1
            /\ pc' = "eva_goto"
            /\ cur' = [cur EXCEPT !.events = @ \cup {"eva_launch"}]
            /\ UNCHANGED <<idx, analysisResults, websiteData, visualAssets,
                           last, pending>>
       ELSE ExtractVisualAssetsFinally(
              ReturningVisualAssets(CreateFallbackVisualAssets))
  /\ UNCHANGED <<unit, summary, deploy, brands, response, timeoutId, elapsed>>

\* await page.goto(url, { waitUntil: 'networkidle' })
EVA_Goto ==
  /\ pc = "eva_goto"
  /\ \E ok \in BOOLEAN :
       IF ok
       THEN /\ pc' = "eva_extract"
            /\ UNCHANGED <<idx, analysisResults, websiteData, visualAssets,
                           cur, last, browser, openBrowsers, pending>>
       ELSE ExtractVisualAssetsFinally(
              ReturningVisualAssets(CreateFallbackVisualAssets))
  /\ UNCHANGED <<unit, summary, deploy, brands, response, timeoutId, elapsed>>

\* the Promise.all of the four sub-extractions; each catches its own errors
EVA_Extract ==
  /\ pc = "eva_extract"
  /\ \E found \in BOOLEAN :
       ExtractVisualAssetsFinally(
         ReturningVisualAssets(ExtractVisualAssetsPlaywright(found)))
  /\ UNCHANGED <<unit, summary, deploy, brands, response, timeoutId, elapsed>>

EVA_BrowserClosed ==
  /\ pc = "eva_close"
  /\ browser' = "undefined"
  /\ openBrowsers' = openBrowsers - 1
  /\ pending' = NoPending
  /\ ReturnVisualAssets(pending.va)
  /\ UNCHANGED <<unit, summary, deploy, brands, response, timeoutId, elapsed>>

(* ---------------- generateAIInsights ---------------- *)

\* bookkeeping: the answer was a completion whose content JSON.parse rejects
AIEvents(outcome) ==
  IF outcome = "invalid_json" THEN {"ai_invalid_json"} ELSE {}

\* the request to api.openai.com settles; no timer runs beside it
OpenAIResponds ==
  /\ pc = "ai_await"
  /\ \E outcome \in OpenAIOutcomes :
       ReturnInsights(GenerateAIInsights(websiteData, visualAssets, outcome),
                      [cur EXCEPT !.events = @ \cup AIEvents(outcome)])
  /\ UNCHANGED <<unit, summary, deploy, brands, response, timeoutId, elapsed, browser,
                 openBrowsers, pending>>

(* ---------------- specification ---------------- *)

Next ==
  \/ RejectRequest
  \/ StartBrand
  \/ FinishReport
  \/ Tick
  \/ AbortFires
  \/ FetchRejects
  \/ HeadersArrive
  \/ BodyArrives
  \/ BodyFails
  \/ AW_Import
  \/ AW_Launch
  \/ AW_Goto
  \/ AW_Extract
  \/ AW_BrowserClosed
  \/ EVA_Static
  \/ EVA_Import
  \/ EVA_Launch
  \/ EVA_Goto
  \/ EVA_Extract
  \/ EVA_BrowserClosed
  \/ OpenAIResponds

Spec == Init /\ [][Next]_vars


(* ---------------- library functions called on their own ---------------- *)

\* the loop variables of POST
post ==
  <<deploy, brands, idx, pc, analysisResults, response, websiteData,
    visualAssets, timeoutId, elapsed, browser, openBrowsers, pending, cur,
    last, summary>>

\* what stands still while a library function is called on its own
request == <<post, progressPage>>

\* no request is being served
NoPost ==
  /\ deploy = [route |-> "v2", analyzer |-> "static", extractor |-> "static",
               apiKey |-> FALSE]
  /\ brands = <<>>
  /\ idx = 1
  /\ pc = "idle"
  /\ analysisResults = <<>>
  /\ response = "pending"
  /\ websiteData = UnsetWebsiteData
  /\ visualAssets = UnsetVisualAssets
  /\ timeoutId = FALSE
  /\ elapsed = 0
  /\ browser = "undefined"
  /\ openBrowsers = 0
  /\ pending = NoPending
  /\ cur = FreshCur
  /\ last = HistoryEntry(FreshCur, UnsetWebsiteData, UnsetVisualAssets,
                         UnsetInsights)
  /\ summary = NoSummary

NoRequest == NoPost /\ progressPage = NoPage

Min(a, b) == IF a <= b THEN a ELSE b

Max(a, b) == IF a >= b THEN a ELSE b

(* ---------------- calculateRealisticScores ---------------- *)

\* calls of the scorer on one fixture
MaxRuns == 2

\* lengths of the strings and lists the scorer looks at, on both sides of
\* each threshold it compares them with; 0 is the empty or absent field
WebsiteFieldLengths ==
  [title |-> {0, 10, 11},
   metaDescription |-> {0, 51},
   headings |-> {0, 4, 6},
   content |-> {0, 1001, 2001},
   images |-> {0, 4},
   recentContent |-> {0, 1}]

VisualFieldLengths ==
  [colors |-> {0, 3},
   logo |-> {0, 1}]

WebsiteFields == DOMAIN WebsiteFieldLengths

ScoredVisualFields == DOMAIN VisualFieldLengths

ScoreFixtures ==
  [websiteData : [title : WebsiteFieldLengths.title,
                  metaDescription : WebsiteFieldLengths.metaDescription,
                  headings : WebsiteFieldLengths.headings,
                  content : WebsiteFieldLengths.content,
                  images : WebsiteFieldLengths.images,
                  recentContent : WebsiteFieldLengths.recentContent],
   visualAssets : [colors : VisualFieldLengths.colors,
                   logo : VisualFieldLengths.logo]]

\* Math.floor(Math.random() * 3)
RandomDraws == 0..2

\* if (cond) score += 1
Bonus(cond) == IF cond THEN 1 ELSE 0

\* Math.round(sum * 2.5): halves round up
RoundTimes2_5(sum) == (sum * 5 + 1) \div 2

\* calculateRealisticScores, with draw the value of
\* Math.floor(Math.random() * 3) in it
CalculateRealisticScores(wd, va, draw) ==
  LET seoScore == Min(10, 6 + Bonus(wd.title > 10)
                            + Bonus(wd.metaDescription > 50)
                            + Bonus(wd.headings > 3)
                            + Bonus(wd.content > 1000))
      uxScore == Min(10, 6 + Bonus(va.colors > 2)
                           + Bonus(va.logo > 0)
                           + Bonus(wd.images > 3))
      contentScore == Min(10, 6 + Bonus(wd.recentContent > 0)
                                + Bonus(wd.content > 2000)
                                + Bonus(wd.headings > 5))
      socialScore == Min(10, draw + 5)
      overall == RoundTimes2_5(seoScore + uxScore + socialScore + contentScore)
  IN [overall |-> Max(60, Min(95, overall)), seo |-> seoScore,
      ux |-> uxScore, social |-> socialScore, content |-> contentScore]

ScoreInit ==
  /\ NoRequest
  /\ fixture \in ScoreFixtures
  /\ returned = <<>>

\* one call of calculateRealisticScores(websiteData, visualAssets)
Score ==
  /\ Len(returned) < MaxRuns
  /\ \E draw \in RandomDraws :
       returned' = Append(returned,
                          [input |-> fixture,
                           scores |-> CalculateRealisticScores(
                                        fixture.websiteData,
                                        fixture.visualAssets, draw)])
  /\ UNCHANGED <<fixture, request>>

\* between two calls, extraction finds one field more: an empty field of the
\* website data becomes non-empty
MoreWebsiteData ==
  /\ Len(returned) = 1
  /\ fixture = returned[1].input
  /\ \E f \in WebsiteFields :
       /\ fixture.websiteData[f] = 0
       /\ \E n \in WebsiteFieldLengths[f] \ {0} :
            fixture' = [fixture EXCEPT !.websiteData[f] = n]
  /\ UNCHANGED <<returned, request>>

\* the same for a field of the visual assets
MoreVisualAssets ==
  /\ Len(returned) = 1
  /\ fixture = returned[1].input
  /\ \E f \in ScoredVisualFields :
       /\ fixture.visualAssets[f] = 0
       /\ \E n \in VisualFieldLengths[f] \ {0} :
            fixture' = [fixture EXCEPT !.visualAssets[f] = n]
  /\ UNCHANGED <<returned, request>>

ScoreNext ==
  \/ Score
  \/ MoreWebsiteData
  \/ MoreVisualAssets

ScoreSpec == ScoreInit /\ [][ScoreNext]_vars


(* ---------------- extractColors, extractColorsWithPlaywright ---------------- *)

\* colour values after the fixed head of a fixture
MaxTokens == 9

\* A colour value as written in a page: its notation, whether its hex digits
\* are written in upper case, and the colour it denotes, named by its
\* 6-digit lower-case hex digits.  "#14a" and "#1144aa" denote one colour.
Hex(form, upper, colour) == [form |-> form, upper |-> upper, colour |-> colour]

White == "ffffff"

Black == "000000"

ColourPool ==
  << Hex("hex6", FALSE, "1e40af"), Hex("hex6", TRUE, "1e40af"),
     Hex("hex3", FALSE, White),    Hex("rgb", FALSE, White),
     Hex("hex3", FALSE, "1144aa"), Hex("hex6", FALSE, "1144aa"),
     Hex("hex6", FALSE, Black),    Hex("rgba", FALSE, Black),
     Hex("rgb", FALSE, "dc2626"),  Hex("hex6", FALSE, "059669"),
     Hex("hex6", FALSE, "ea580c"), Hex("hex6", FALSE, "6366f1"),
     Hex("hex6", FALSE, "8b5cf6"), Hex("hex6", FALSE, "0ea5e9"),
     Hex("hex6", FALSE, "64748b"), Hex("hex6", FALSE, "475569") >>

\* len pool values starting at start, cyclically
Window(start, len) ==
  [i \in 1..len |-> ColourPool[((start + i - 2) % Len(ColourPool)) + 1]]

HeadTokens == {ColourPool[i] : i \in 1..8}

ColourFixtures ==
  { [variant |-> v, tokens |-> h \o Window(start, len)] :
      v \in Extractors,
      h \in {<<>>} \cup {<<a>> : a \in HeadTokens}
                   \cup {<<a, b>> : a, b \in HeadTokens},
      start \in {1, 9},
      len \in 0..MaxTokens }

\* [...new Set(list)] / Array.from(set): first occurrences, in order
RECURSIVE Unique(_)
Unique(list) ==
  IF list = <<>> THEN <<>>
  ELSE LET front == Unique(SubSeq(list, 1, Len(list) - 1))
           x == list[Len(list)]
       IN IF \E i \in 1..Len(front) : front[i] = x THEN front
          ELSE Append(front, x)

\* list.slice(0, n)
Slice(list, n) == SubSeq(list, 1, Min(n, Len(list)))

\* color.toLowerCase()
ToLowerCase(c) == [c EXCEPT !.upper = FALSE]

\* the match of #([A-Fa-f0-9]{6}|[A-Fa-f0-9]{3})\b, kept as written
IsHexMatch(c) == c.form \in {"hex6", "hex3"}

\* the match of rgb\(\s*(\d+)\s*,\s*(\d+)\s*,\s*(\d+)\s*\); "rgba(" does not
\* match
IsRgbMatch(c) == c.form = "rgb"

\* `#${r.toString(16).padStart(2, '0')}...`
RgbToHex(c) == Hex("hex6", FALSE, c.colour)

\* matches.map(rgb to hex)
RgbListToHex(list) == [i \in 1..Len(list) |-> RgbToHex(list[i])]

\* ['#ffffff', '#000000', '#fff', '#000']
GenericColours ==
  { Hex("hex6", FALSE, White), Hex("hex6", FALSE, Black),
    Hex("hex3", FALSE, White), Hex("hex3", FALSE, Black) }

\* generateBrandColors for a domain without an industry keyword
GenerateBrandColors ==
  << Hex("hex6", FALSE, "1e40af"), Hex("hex6", FALSE, "3b82f6"),
     Hex("hex6", FALSE, "0ea5e9"), Hex("hex6", FALSE, "64748b"),
     Hex("hex6", FALSE, "475569") >>

IsNotGeneric(c) == ToLowerCase(c) \notin GenericColours

\* the static extractColors on a page holding the given colour values
ExtractColors(tokens) ==
  LET hexColors == SelectSeq(tokens, IsHexMatch)
      rgbColors == RgbListToHex(SelectSeq(tokens, IsRgbMatch))
      allColors == Unique(hexColors \o rgbColors)
      filteredColors == Slice(SelectSeq(allColors, IsNotGeneric), 6)
  IN IF Len(filteredColors) = 0 THEN GenerateBrandColors
     ELSE filteredColors

\* window.getComputedStyle(el).color of an element styled with c: always
\* "rgb(r, g, b)", or "rgba(r, g, b, a)" when not opaque
ComputedColor(c) ==
  IF c.form = "rgba" THEN c ELSE Hex("rgb", FALSE, c.colour)

\* convertToHex returned a hex string (not null)
Converts(c) == c.form = "rgb"

\* extractColorsWithPlaywright on a page whose brand elements have the given
\* colours
ExtractColorsWithPlaywright(tokens) ==
  LET computed == [i \in 1..Len(tokens) |-> ComputedColor(tokens[i])]
      foundColors == Unique(RgbListToHex(SelectSeq(computed, Converts)))
  IN Slice(foundColors, 8)

ColourInit ==
  /\ NoRequest
  /\ fixture \in ColourFixtures
  /\ returned = <<>>

CallExtractColors ==
  /\ fixture.variant = "static"
  /\ returned = <<>>
  /\ returned' = <<ExtractColors(fixture.tokens)>>
  /\ UNCHANGED <<fixture, request>>

CallExtractColorsWithPlaywright ==
  /\ fixture.variant = "playwright"
  /\ returned = <<>>
  /\ returned' = <<ExtractColorsWithPlaywright(fixture.tokens)>>
  /\ UNCHANGED <<fixture, request>>

ColourNext ==
  \/ CallExtractColors
  \/ CallExtractColorsWithPlaywright

ColourSpec == ColourInit /\ [][ColourNext]_vars


(* ---------------- parseHTMLContent, on markup ---------------- *)

\* tokens in a document
MaxDocLen == 4

\* A document is a sequence of pieces of markup and text.  "<" is a stray
\* angle bracket, "<meta>" a complete description meta tag with content
\* "text", "<img>" an image tag with src "src".  The pool has no keywords
\* meta tag, no href and no article element.
DocTokens ==
  {"<title>", "</title>", "<h1>", "</h1>", "<script>", "</script>",
   "<meta>", "<img>", "text", " ", "<"}

\* the pieces [^<] can run over
IsPlain(t) == t \in {"text", " "}

\* the pieces that end with ">"
IsTag(t) == t \notin {"text", " ", "<"}

RECURSIVE Documents(_)
Documents(n) ==
  IF n = 0 THEN {<<>>}
  ELSE LET shorter == Documents(n - 1)
       IN shorter \cup {Append(d, t) : d \in {x \in shorter : Len(x) = n - 1},
                                       t \in DocTokens}

\* the value of str.match(re) when nothing matches
NoMatch == [matched |-> FALSE, group |-> <<>>, last |-> 0]

\* <open>([^<]+)<close> tried at position i: the plain run after open must
\* be non-empty and be followed by close
MatchAt(html, open, close, i) ==
  IF html[i] # open THEN NoMatch
  ELSE LET stops == {j \in (i + 1)..Len(html) : ~IsPlain(html[j])}
       IN IF stops = {} THEN NoMatch
          ELSE LET j == CHOOSE x \in stops : \A y \in stops : x <= y
               IN IF j > i + 1 /\ html[j] = close
                  THEN [matched |-> TRUE, group |-> SubSeq(html, i + 1, j - 1),
                        last |-> j]
                  ELSE NoMatch

\* html.match(/<open>([^<]+)<close>/i): the leftmost match at or after from
RECURSIVE Match(_, _, _, _)
Match(html, open, close, from) ==
  IF from > Len(html) THEN NoMatch
  ELSE LET m == MatchAt(html, open, close, from)
       IN IF m.matched THEN m ELSE Match(html, open, close, from + 1)

\* html.match(/.../gi): null when there is no match, else all the matches
\* from left to right, none overlapping
RECURSIVE Matches(_, _, _, _)
Matches(html, open, close, from) ==
  LET m == Match(html, open, close, from)
  IN IF m.matched
     THEN <<m.group>> \o Matches(html, open, close, m.last + 1)
     ELSE <<>>

MatchAll(html, open, close) ==
  LET all == Matches(html, open, close, 1)
  IN [isNull |-> all = <<>>, list |-> all]

\* str.trim()
Trim(str) ==
  LET solid == {i \in 1..Len(str) : str[i] # " "}
  IN IF solid = {} THEN <<>>
     ELSE SubSeq(str, CHOOSE a \in solid : \A b \in solid : a <= b,
                      CHOOSE a \in solid : \A b \in solid : a >= b)

\* a value, or a TypeError thrown while computing it
Value(v) == [threw |-> FALSE, value |-> v]

TypeError == [threw |-> TRUE, value |-> <<>>]

\* m ? m[1].trim() : ''
TrimmedGroupOrEmpty(m) ==
  IF m.matched THEN Value(Trim(m.group)) ELSE Value(<<>>)

Title(html) == TrimmedGroupOrEmpty(Match(html, "<title>", "</title>", 1))

\* the description and keywords meta tags
MetaContent(html, tag) ==
  TrimmedGroupOrEmpty(
    IF \E i \in 1..Len(html) : html[i] = tag
    THEN [matched |-> TRUE, group |-> <<"text">>, last |-> 0]
    ELSE NoMatch)

\* variant: the heading matches are mapped without the "|| []"
Headings_NoGuard(html) ==
  LET headingMatches == MatchAll(html, "<h1>", "</h1>")
  IN IF headingMatches.isNull THEN TypeError
     ELSE Value(SelectSeq([i \in 1..Len(headingMatches.list) |->
                             Trim(headingMatches.list[i])],
                          LAMBDA h : Len(h) > 0))

\* (html.match(/<h[1-3]...>/gi) || []).map(strip tags, trim).filter(non-empty)
Headings(html) ==
  LET headingMatches == MatchAll(html, "<h1>", "</h1>")
      list == IF headingMatches.isNull THEN <<>> ELSE headingMatches.list
  IN Value(SelectSeq([i \in 1..Len(list) |-> Trim(list[i])],
                     LAMBDA h : Len(h) > 0))

\* .replace(/<script[^>]*>[\s\S]*?<\/script>/gi, ''): every script element
\* that is closed goes, up to its first closing tag
RECURSIVE RemoveScripts(_)
RemoveScripts(html) ==
  LET opens == {i \in 1..Len(html) :
                  /\ html[i] = "<script>"
                  /\ \E j \in (i + 1)..Len(html) : html[j] = "</script>"}
  IN IF opens = {} THEN html
     ELSE LET i == CHOOSE x \in opens : \A y \in opens : x <= y
              closes == {j \in (i + 1)..Len(html) : html[j] = "</script>"}
              j == CHOOSE x \in closes : \A y \in closes : x <= y
          IN SubSeq(html, 1, i - 1)
               \o RemoveScripts(SubSeq(html, j + 1, Len(html)))

\* .replace(/<[^>]+>/g, ' '): a tag becomes a blank; a stray "<" takes
\* everything up to the next ">" with it, and stays when no ">" follows
RECURSIVE ReplaceTags(_)
ReplaceTags(html) ==
  IF html = <<>> THEN <<>>
  ELSE LET rest == SubSeq(html, 2, Len(html))
           ends == {j \in 2..Len(html) : IsTag(html[j])}
       IN IF IsTag(html[1]) THEN <<" ">> \o ReplaceTags(rest)
          ELSE IF html[1] = "<" /\ ends # {}
          THEN LET j == CHOOSE x \in ends : \A y \in ends : x <= y
               IN <<" ">> \o ReplaceTags(SubSeq(html, j + 1, Len(html)))
          ELSE <<html[1]>> \o ReplaceTags(rest)

\* .replace(/\s+/g, ' ')
RECURSIVE CollapseBlanks(_)
CollapseBlanks(str) ==
  IF Len(str) <= 1 THEN str
  ELSE IF str[1] = " " /\ str[2] = " "
  THEN CollapseBlanks(SubSeq(str, 2, Len(str)))
  ELSE <<str[1]>> \o CollapseBlanks(SubSeq(str, 2, Len(str)))

Content(html) ==
  Value(Trim(CollapseBlanks(ReplaceTags(RemoveScripts(html)))))

\* (html.match(/<img[^>]*src=...>/gi) || []).map(src or '').filter(non-empty)
Images(html) ==
  LET imageMatches == SelectSeq(html, LAMBDA t : t = "<img>")
  IN Value([i \in 1..Len(imageMatches) |-> "src"])

\* (html.match(/href=.../gi) || []) and extractRecentContent on a document
\* without href and without article or press-release text
NoSuchMarkup == Value(<<>>)

\* parseHTMLContent; detectedIndustry is computed from the text by
\* detectIndustryFromContent and is not part of this record
ParseHTML(html) ==
  LET title == Title(html)
      metaDescription == MetaContent(html, "<meta>")
      metaKeywords == MetaContent(html, "<meta-keywords>")
      headings == Headings(html)
      content == Content(html)
      links == NoSuchMarkup
      images == Images(html)
      recentContent == NoSuchMarkup
  IN [threw |-> \/ title.threw \/ metaDescription.threw
                \/ metaKeywords.threw \/ headings.threw \/ content.threw
                \/ links.threw \/ images.threw \/ recentContent.threw,
      title |-> title.value, metaDescription |-> metaDescription.value,
      metaKeywords |-> metaKeywords.value, headings |-> headings.value,
      content |-> content.value, links |-> links.value,
      images |-> images.value, recentContent |-> recentContent.value]

ParseInit ==
  /\ NoRequest
  /\ fixture \in Documents(MaxDocLen)
  /\ returned = <<>>

CallParseHTMLContent ==
  /\ returned = <<>>
  /\ returned' = <<ParseHTML(fixture)>>
  /\ UNCHANGED <<fixture, request>>

ParseNext == CallParseHTMLContent

ParseSpec == ParseInit /\ [][ParseNext]_vars


(* ---------------- brand input normalisation, on its own ---------------- *)

\* pieces in a brand input
MaxInputLen == 4

\* the pieces a brand input is written with: the scheme "http" + "s://",
\* labels of a name or domain, the dot and the blank
InputTokens == {"http", "s://", "httpbin", "acme", "Acme", "com", ".", " "}

RECURSIVE BrandInputs(_)
BrandInputs(n) ==
  IF n = 0 THEN {<<>>}
  ELSE LET shorter == BrandInputs(n - 1)
       IN shorter \cup {Append(d, t) : d \in {x \in shorter : Len(x) = n - 1},
                                       t \in InputTokens}

InputInit ==
  /\ NoRequest
  /\ fixture \in BrandInputs(MaxInputLen)
  /\ returned = <<>>

\* the first two statements of the loop body of POST
NormaliseBrandInput ==
  /\ returned = <<>>
  /\ returned' = <<[website |-> Website(fixture),
                    brandName |-> BrandName(fixture)]>>
  /\ UNCHANGED <<fixture, request>>

InputNext == NormaliseBrandInput

InputSpec == InputInit /\ [][InputNext]_vars


(* ---------------- detectIndustryFromContent ---------------- *)

\* words in a text
MaxWords == 2

\* the categories in the order of the if statements
IndustryNames ==
  << "Healthcare & Medical",
     "Technology",
     "Financial Services",
     "Education",
     "Retail & E-commerce",
     "Consulting & Professional Services" >>

\* the arguments of content.includes(...) in each if statement
IndustryKeywords ==
  << {"health", "medical", "clinical", "patient", "healthcare", "medicine",
      "pharmaceutical", "diagnostic", "therapy"},
     {"software", "technology", "digital", "platform", "cloud", "ai",
      "artificial intelligence", "saas", "tech"},
     {"financial", "banking", "investment", "insurance", "finance",
      "wealth", "trading", "loan", "credit"},
     {"education", "learning", "university", "school", "academic",
      "student", "course", "training"},
     {"retail", "shop", "store", "ecommerce", "marketplace", "buy", "sell",
      "product"},
     {"consulting", "advisory", "professional services", "strategy",
      "management", "expertise"} >>

AllKeywords == UNION {IndustryKeywords[k] : k \in 1..Len(IndustryKeywords)}

\* the words of a text: each keyword written out, and a word without any
\* keyword in it
Vocabulary == AllKeywords \cup {"welcome"}

\* the keywords that are written inside another word of the vocabulary:
\* "ai" is part of "training" and "retail", "tech" of "technology", "health"
\* of "healthcare"
PartOfWord ==
  { <<"ai", "training">>, <<"ai", "retail">>, <<"tech", "technology">>,
    <<"health", "healthcare">> }

\* content.includes(kw), content being the lower-cased text
ContentIncludes(text, kw) ==
  \E i \in 1..Len(text) : text[i] = kw \/ <<kw, text[i]>> \in PartOfWord

RECURSIVE Texts(_)
Texts(n) ==
  IF n = 0 THEN {<<>>}
  ELSE LET shorter == Texts(n - 1)
       IN shorter \cup {Append(d, t) : d \in {x \in shorter : Len(x) = n - 1},
                                       t \in Vocabulary}

\* the condition of the k-th if statement
IndustryMatches(text, k) ==
  \E kw \in IndustryKeywords[k] : ContentIncludes(text, kw)

\* detectIndustryFromContent: the first if statement whose condition holds
\* returns
DetectIndustryFromContent(text) ==
  LET hits == {k \in 1..Len(IndustryKeywords) : IndustryMatches(text, k)}
  IN IF hits = {} THEN "General Business"
     ELSE IndustryNames[CHOOSE k \in hits : \A j \in hits : k <= j]

IndustryInit ==
  /\ NoRequest
  /\ fixture \in Texts(MaxWords)
  /\ returned = <<>>

CallDetectIndustry ==
  /\ returned = <<>>
  /\ returned' = <<DetectIndustryFromContent(fixture)>>
  /\ UNCHANGED <<fixture, request>>

IndustryNext == CallDetectIndustry

IndustrySpec == IndustryInit /\ [][IndustryNext]_vars


(* ---------------- extractLogoWithPlaywright ---------------- *)

\* img elements in a page
MaxImages == 2

\* An img element: where it stands, what makes a logo selector match it
\* (its alt, src or class contains "logo", or it stands inside .logo or
\* .brand) and the form of its src attribute.
ImgElements ==
  [region : {"header", "nav", "body"},
   mark : {"alt", "src", "class", "logoBox", "brandBox", "none"},
   src : {"absolute", "relative", "missing"}]

RECURSIVE Pages(_)
Pages(n) ==
  IF n = 0 THEN {<<>>}
  ELSE LET shorter == Pages(n - 1)
       IN shorter \cup {Append(d, t) : d \in {x \in shorter : Len(x) = n - 1},
                                       t \in ImgElements}

\* const logoSelectors, in array order
LogoSelectors ==
  << "img[alt*=logo]", "img[src*=logo]", "img[class*=logo]", ".logo img",
     ".brand img", "header img", "nav img" >>

SelectorMatches(selector, el) ==
  CASE selector = "img[alt*=logo]" -> el.mark = "alt"
    [] selector = "img[src*=logo]" -> el.mark = "src" /\ el.src # "missing"
    [] selector = "img[class*=logo]" -> el.mark = "class"
    [] selector = ".logo img" -> el.mark = "logoBox"
    [] selector = ".brand img" -> el.mark = "brandBox"
    [] selector = "header img" -> el.region = "header"
    [] selector = "nav img" -> el.region = "nav"

\* page.locator(selector).first(): position of the first matching element in
\* document order, 0 when count() is 0
First(page, selector) ==
  LET found == {i \in 1..Len(page) : SelectorMatches(selector, page[i])}
  IN IF found = {} THEN 0 ELSE CHOOSE i \in found : \A j \in found : i <= j

\* new URL(src, url).href
Href(src) == [form |-> "absolute", from |-> src]

NoLogo == [found |-> FALSE, element |-> 0, url |-> [form |-> "null", from |-> "null"]]

\* the for loop of extractLogoWithPlaywright from selector k on: the first
\* selector whose first element has a src returns
RECURSIVE LogoFrom(_, _)
LogoFrom(page, k) ==
  IF k > Len(LogoSelectors) THEN NoLogo
  ELSE LET i == First(page, LogoSelectors[k])
       IN IF i > 0 /\ page[i].src # "missing"
          THEN [found |-> TRUE, element |-> i, url |-> Href(page[i].src)]
          ELSE LogoFrom(page, k + 1)

ExtractLogoWithPlaywright(page) == LogoFrom(page, 1)

LogoInit ==
  /\ NoRequest
  /\ fixture \in Pages(MaxImages)
  /\ returned = <<>>

CallExtractLogo ==
  /\ returned = <<>>
  /\ returned' = <<ExtractLogoWithPlaywright(fixture)>>
  /\ UNCHANGED <<fixture, request>>

LogoNext == CallExtractLogo

LogoSpec == LogoInit /\ [][LogoNext]_vars


(* ---------------- extractFonts, extractFontsWithPlaywright ---------------- *)

\* font-family values in a page
MaxDecls == 2

\* fonts in one font-family value
MaxStack == 2

\* font names after trim and removal of quotes
FontNames == {"Inter", "Georgia", "serif", "sans-serif", "inherit"}

RECURSIVE Stacks(_)
Stacks(n) ==
  IF n = 0 THEN {<<>>}
  ELSE LET shorter == Stacks(n - 1)
       IN shorter \cup {Append(d, t) : d \in {x \in shorter : Len(x) = n - 1},
                                       t \in FontNames}

\* a font-family value names at least one font
FontFamilies == Stacks(MaxStack) \ {<<>>}

RECURSIVE Declarations(_)
Declarations(n) ==
  IF n = 0 THEN {<<>>}
  ELSE LET shorter == Declarations(n - 1)
       IN shorter \cup {Append(d, t) : d \in {x \in shorter : Len(x) = n - 1},
                                       t \in FontFamilies}

\* font.includes(word), for the words the two extractors look for
FontIncludes(font, word) ==
  \/ font = word
  \/ font = "sans-serif" /\ word = "serif"

\* ['Arial', 'Helvetica', 'sans-serif']
CommonWebFonts == <<"Arial", "Helvetica", "sans-serif">>

\* .map(font => font.split(',')[0].trim()), one font per matched declaration
FirstFonts(decls) == [i \in 1..Len(decls) |-> decls[i][1]]

\* extractFonts of visualExtractor.ts on the font-family declarations that
\* fontRegex matches in the content
ExtractFonts(decls) ==
  LET kept == SelectSeq(FirstFonts(decls),
                        LAMBDA f : ~FontIncludes(f, "inherit"))
      uniqueFonts == Unique(Slice(kept, 5))
  IN IF Len(uniqueFonts) = 0 THEN CommonWebFonts ELSE uniqueFonts

\* fontFamily.split(',') of every element, in element order
RECURSIVE AllFonts(_)
AllFonts(decls) ==
  IF decls = <<>> THEN <<>>
  ELSE Head(decls) \o AllFonts(Tail(decls))

\* extractFontsWithPlaywright on the computed fontFamily of the elements
\* h1, h2, h3, .title, .heading, body
ExtractFontsWithPlaywright(decls) ==
  LET foundFonts ==
        Unique(SelectSeq(AllFonts(decls),
                         LAMBDA f : /\ ~FontIncludes(f, "serif")
                                    /\ ~FontIncludes(f, "sans-serif")))
  IN Slice(foundFonts, 5)

FontInit ==
  /\ NoRequest
  /\ fixture \in Declarations(MaxDecls)
  /\ returned = <<>>

CallExtractFonts ==
  /\ returned = <<>>
  /\ returned' = <<[by |-> "static", fonts |-> ExtractFonts(fixture)]>>
  /\ UNCHANGED <<fixture, request>>

CallExtractFontsWithPlaywright ==
  /\ returned = <<>>
  /\ returned' =
       <<[by |-> "playwright", fonts |-> ExtractFontsWithPlaywright(fixture)]>>
  /\ UNCHANGED <<fixture, request>>

FontNext == CallExtractFonts \/ CallExtractFontsWithPlaywright

FontSpec == FontInit /\ [][FontNext]_vars


(* ---------------- the sub-extractions of extractVisualAssets ---------------- *)

\* what a sub-extraction meets: values in the page, none, or an exception
\* inside its try block
SubOutcomes == {"found", "empty", "throws"}

AssetFixtures ==
  [extractor : Extractors, colors : SubOutcomes, logo : SubOutcomes,
   fonts : SubOutcomes]

\* extractColors / extractColorsWithPlaywright, with their catch blocks
ColorsReturned(extractor, outcome) ==
  IF outcome = "found" THEN "extracted"
  ELSE IF extractor = "static" THEN "generated" ELSE "emptyList"

\* extractLogo (generateTextLogo when no probe answers, undefined from the
\* catch) / extractLogoWithPlaywright (null in both cases)
LogoReturned(extractor, outcome) ==
  IF outcome = "found" THEN "extracted"
  ELSE IF extractor = "playwright" THEN "null"
  ELSE IF outcome = "empty" THEN "placeholder" ELSE "missing"

\* extractFonts / extractFontsWithPlaywright, with their catch blocks
FontsReturned(extractor, outcome) ==
  IF outcome = "found" THEN "extracted"
  ELSE IF extractor = "static" THEN "default" ELSE "emptyList"

SubReturned(field, extractor, outcome) ==
  CASE field = "colors" -> ColorsReturned(extractor, outcome)
    [] field = "logo" -> LogoReturned(extractor, outcome)
    [] field = "fonts" -> FontsReturned(extractor, outcome)

\* the locals colors, logo and fonts of extractVisualAssets, and whether the
\* function has returned
UnsetAssets ==
  [logo |-> "unset", colors |-> "unset", fonts |-> "unset", resolved |-> FALSE]

Assets == IF returned = <<>> THEN UnsetAssets ELSE returned[1]

\* The exception leaves the sub-extraction: nothing catches it before the
\* catch of extractVisualAssets, which returns the fallback assets.
SubExtractionThrows_Propagates(field, assets) ==
  [logo |-> CreateFallbackVisualAssets.logo,
   colors |-> CreateFallbackVisualAssets.colors,
   fonts |-> CreateFallbackVisualAssets.fonts,
   resolved |-> TRUE]

\* The catch block of the sub-extraction returns its own value; the other
\* locals stay as they are.
SubExtractionThrows(field, assets) ==
  [assets EXCEPT ![field] = SubReturned(field, fixture.extractor, "throws")]

SubExtraction(field) ==
  /\ ~Assets.resolved
  /\ Assets[field] = "unset"
  /\ returned' =
       << IF fixture[field] = "throws"
          THEN SubExtractionThrows(field, Assets)
          ELSE [Assets EXCEPT
                  ![field] = SubReturned(field, fixture.extractor,
                                         fixture[field])] >>
  /\ UNCHANGED <<fixture, request>>

\* static: const colors = await extractColors(...) comes first; playwright:
\* the members of Promise.all settle in any order
SubExtractColors == SubExtraction("colors")

SubExtractLogo ==
  /\ fixture.extractor = "static" => Assets.colors # "unset"
  /\ SubExtraction("logo")

SubExtractFonts ==
  /\ fixture.extractor = "static" => Assets.logo # "unset"
  /\ SubExtraction("fonts")

\* return { logo, colors, fonts, ... }
ReturnAssets ==
  /\ ~Assets.resolved
  /\ \A field \in {"logo", "colors", "fonts"} : Assets[field] # "unset"
  /\ returned' = <<[Assets EXCEPT !.resolved = TRUE]>>
  /\ UNCHANGED <<fixture, request>>

AssetsInit ==
  /\ NoRequest
  /\ fixture \in AssetFixtures
  /\ returned = <<>>

AssetsNext ==
  \/ SubExtractColors
  \/ SubExtractLogo
  \/ SubExtractFonts
  \/ ReturnAssets

AssetsSpec == AssetsInit /\ [][AssetsNext]_vars


(* ---------------- generateAIInsights called on its own ---------------- *)

\* generateBasicFallbackInsights: a fixed record (overallScore 75, seoScore 7,
\* socialScore 6) around template sentences that name the brand
GenerateBasicFallbackInsights ==
  [isNull |-> FALSE, overallScore |-> "default", description |-> "template",
   positioning |-> "template", seoScore |-> "default",
   socialScore |-> "default", strengths |-> "template"]

\* the arguments websiteData and visualAssets as a caller may pass them:
\* complete, lacking an optional member (detectedIndustry, colors), or
\* lacking what the function dereferences (content; the object itself)
ArgumentShapes == {"complete", "partial", "malformed"}

AIFixtures ==
  [apiKey : BOOLEAN, outcome : OpenAIOutcomes, websiteData : ArgumentShapes,
   visualAssets : ArgumentShapes]

\* the prompt template of generateOpenAIInsights reads
\* websiteData.content.substring and visualAssets.colors?.join, and
\* generateComprehensiveFallbackInsights reads websiteData.content.length and
\* visualAssets.colors: a TypeError on malformed arguments
Dereferences(f) ==
  f.websiteData # "malformed" /\ f.visualAssets # "malformed"

\* generateAIInsights as a whole: the inner try around the OpenAI call, the
\* comprehensive fallback after it, the outer catch around both
GenerateAIInsightsCall(f) ==
  LET openai == IF Dereferences(f) THEN GenerateOpenAIInsights(f.outcome)
                ELSE [threw |-> TRUE, value |-> JsNull]
  IN IF f.apiKey /\ ~openai.threw
     THEN [rejected |-> FALSE, by |-> "openai", value |-> openai.value]
     ELSE IF Dereferences(f)
          THEN [rejected |-> FALSE, by |-> "comprehensive",
                value |-> GenerateComprehensiveFallbackInsights(
                            UnsetWebsiteData, UnsetVisualAssets)]
          ELSE [rejected |-> FALSE, by |-> "basic",
                value |-> GenerateBasicFallbackInsights]

AIInit ==
  /\ NoRequest
  /\ fixture \in AIFixtures
  /\ returned = <<>>

CallGenerateAIInsights ==
  /\ returned = <<>>
  /\ returned' = <<GenerateAIInsightsCall(fixture)>>
  /\ UNCHANGED <<fixture, request>>

AINext == CallGenerateAIInsights

AISpec == AIInit /\ [][AINext]_vars


(* ---------------- startProgressPolling of the progress page ---------------- *)

\* poll requests awaiting their response at one time
MaxInFlight == 2

\* value of timeoutCount beyond which no further timeout is explored
MaxTimeouts == 5

\* startAnalysis has shown the progress section and called
\* startProgressPolling: progressInterval runs the poll callback
PollerInit ==
  /\ NoPost
  /\ fixture = "none"
  /\ returned = <<>>
  /\ progressPage = [NoPage EXCEPT !.section = "progress", !.interval = "poll",
                                   !.job = "running"]

\* the analysis job on the server ends, and a finished job is cleaned up later
JobAdvances ==
  /\ \/ /\ progressPage.job = "running"
        /\ \E end \in {"completed", "failed"} :
             progressPage' = [progressPage EXCEPT !.job = end]
     \/ /\ progressPage.job \in {"completed", "failed"}
        /\ progressPage' = [progressPage EXCEPT !.job = "gone"]
  /\ UNCHANGED <<fixture, returned, post>>

\* progressInterval fires: the callback issues fetch(`/api/progress/...`) and
\* is suspended at the await
IntervalFires ==
  /\ progressPage.interval = "poll"
  /\ progressPage.inFlight < MaxInFlight
  /\ progressPage' = [progressPage EXCEPT !.inFlight = @ + 1]
  /\ UNCHANGED <<fixture, returned, post>>

\* the interval set by setInterval(arguments.callee, pollingInterval) fires.
\* Inside the arrow function arguments is that of startProgressPolling, so
\* the callee is startProgressPolling: it clears progressInterval and sets
\* the interval of the poll callback again.
RestartFires ==
  /\ progressPage.interval = "restart"
  /\ progressPage' = [progressPage EXCEPT !.interval = "poll"]
  /\ UNCHANGED <<fixture, returned, post>>

\* what a pending poll request can end with while the job is in state job:
\* an abort or network failure, an answer the callback throws on for another
\* reason (non-2xx, 404 for a job that is gone, a body that is not JSON), or
\* the status of the job
PollOutcomes(job) ==
  {"timeout", "bad"} \cup
    (CASE job = "running" -> {"running"}
       [] job = "completed" -> {"completed"}
       [] job = "failed" -> {"failed"}
       [] OTHER -> {"notfound"})

\* Math.min(pollingInterval * 1.5, 15000)
Slower(ms) == Min((ms * 3) \div 2, 15000)

\* the rest of the poll callback, from the await of fetch on, for a request
\* that ended with outcome; p is the page when it resumes
HandlePoll(p, outcome) ==
  CASE outcome = "running" -> p
    [] outcome = "completed" ->
         [p EXCEPT !.interval = "none", !.section = "results",
                   !.handled = IF @ = "none" THEN "completed" ELSE @]
    [] outcome = "failed" ->
         [p EXCEPT !.interval = "none", !.section = "error",
                   !.handled = IF @ = "none" THEN "failed" ELSE @]
    [] outcome = "timeout" ->
         IF p.timeoutCount + 1 > 3
         THEN [p EXCEPT !.timeoutCount = @ + 1,
                        !.pollingInterval = Slower(@),
                        !.interval = "restart"]
         ELSE [p EXCEPT !.timeoutCount = @ + 1]
    [] OTHER ->
         [p EXCEPT !.timeoutCount = 0, !.pollingInterval = 3000,
                   !.interval = "none", !.section = "error"]

PollSettles ==
  /\ progressPage.inFlight > 0
  /\ \E outcome \in PollOutcomes(progressPage.job) :
       /\ outcome = "timeout" => progressPage.timeoutCount < MaxTimeouts
       /\ progressPage' =
            HandlePoll([progressPage EXCEPT !.inFlight = @ - 1], outcome)
  /\ UNCHANGED <<fixture, returned, post>>

PollerNext ==
  \/ JobAdvances
  \/ IntervalFires
  \/ RestartFires
  \/ PollSettles

PollerSpec == PollerInit /\ [][PollerNext]_vars


(* ---------------- properties ---------------- *)

InsightFields == {"description", "positioning", "seoScore", "socialScore",
                  "strengths"}

VisualFields == {"logo", "colors", "fonts"}

LaterStageEvents == {"visual", "logo_probe", "eva_launch", "ai", "ai_request"}

RenderingPcs == {"aw_goto", "aw_extract", "aw_close", "eva_goto",
                 "eva_extract", "eva_close"}

\* A record has been pushed; last is the bookkeeping of its brand.  Every
\* record is the newest one in the state that follows its push, so a
\* property of NewestRecord in every reachable state is a property of every
\* record when it is pushed, and C1 shows that no record changes afterwards.
Pushed == Len(analysisResults) >= 1

NewestRecord == analysisResults[Len(analysisResults)]

NewestBrand == brands[Len(analysisResults)]

\* the record a brand gets from its own input and its own stage outputs
OwnRecord ==
  IF last.threw THEN ErrorEntry(NewestBrand, last.msg)
  ELSE BrandAnalysis(deploy.route, NewestBrand, last.wd, last.va, last.ai)

\* C1: whichever brands throw, the batch loop never aborts: one record per
\* brand processed so far and N records in the response, in input order; a
\* brand's record is a failed entry exactly when its pipeline threw; every
\* record is the one its own brand's run determines, and no later iteration
\* changes a record already pushed.
C1_BatchNeverAborts ==
  /\ [](/\ Len(analysisResults) = idx - 1
        /\ response = "200" => Len(analysisResults) = Len(brands)
        /\ pc = "done" => response \in {"200", "400"}
        /\ Pushed =>
             /\ Failed(NewestRecord) <=> last.threw
             /\ NewestRecord.name =
                  IF last.threw THEN NewestBrand ELSE BrandName(NewestBrand)
             /\ NewestRecord = OwnRecord)
  /\ [][/\ Len(analysisResults') >= Len(analysisResults)
        /\ SubSeq(analysisResults', 1, Len(analysisResults)) = analysisResults
       ]_vars

\* a response in which a failed brand is followed by a successful one
C1_Witness ==
  /\ response = "200"
  /\ \E i \in 1..(Len(analysisResults) - 1) :
       /\ Failed(analysisResults[i])
       /\ ~Failed(analysisResults[i + 1])
       /\ analysisResults[i + 1].name = BrandName(brands[i + 1])

C3_NoStageAfterFetchFailure ==
  (Pushed /\ last.fetch = "failed") =>
    /\ last.events \cap LaterStageEvents = {}
    /\ last.prompts = <<>>
    /\ last.va = UnsetVisualAssets
    /\ last.ai = UnsetInsights

C3_Witness ==
  /\ Pushed
  /\ last.fetch = "failed"
  /\ last.msg = "Failed to fetch website: This operation was aborted"
  /\ deploy.apiKey

\* C4: once fetch and parse have succeeded, a failure of a later stage never
\* makes the record a failed one.
C4_LaterFailureKeepsSuccess ==
  (Pushed /\ last.fetch = "ok") => ~Failed(NewestRecord)

\* C5: every record reported as a success has non-empty main text.
C5_SuccessHasMainText ==
  (Pushed /\ ~Failed(NewestRecord)) => last.wd.content = "text"

\* C6: no insight, score or visual field of a record holds a hard-coded
\* default, a generated placeholder or a random number.
C6_NoSyntheticField ==
  Pushed =>
    \A f \in InsightFields \cup VisualFields \cup {"score"} :
      NewestRecord[f] \notin Synthetic

\* C7: a brand whose static fetch failed was then tried with headless
\* rendering before it was given up.
C7_StaticFailureEscalates ==
  (Pushed /\ deploy.analyzer = "static" /\ last.fetch = "failed")
    => "aw_launch" \in last.events

\* C8: outside a rendering call (between launch and the end of its finally
\* block) no headless browser is open.
C8_BrowserClosedOnEveryPath ==
  pc \notin RenderingPcs => (openBrowsers = 0 /\ browser = "undefined")

\* a rendering call has launched a browser, left through its catch block
\* and settled
C8_Witness ==
  /\ Pushed
  /\ pc = "loop"
  /\ openBrowsers = 0
  /\ \/ "aw_launch" \in last.events /\ last.fetch = "failed"
     \/ "eva_launch" \in last.events /\ last.va = CreateFallbackVisualAssets

\* C9: a fetch attempt that is still pending has not outlived its timeout.
C9_FetchBoundedByTimeout ==
  pc \in {"aw_headers", "aw_body"} => elapsed <= FetchTimeoutMs

\* C10: with a key configured the rule-based fallback is reached only after
\* the detailed, simplified and guided prompts have been tried in that order,
\* and never more than three requests are made for a brand.
C10_PromptSequence ==
  Pushed =>
    /\ Len(last.prompts) <= 3
    /\ (deploy.apiKey
        /\ last.ai = GenerateComprehensiveFallbackInsights(last.wd, last.va))
         => last.prompts = <<"detailed", "simplified", "guided">>

\* what a brand's insights hold when nothing was generated for it
EmptyValues == {"null", "emptyList", "missing"}

\* C11: when the model's answer is not valid JSON, the brand keeps a success
\* record with its content, its insight fields stay empty and no template
\* text appears in it.  (No setting selects a strict or best-effort mode;
\* every deployment runs the one code path of generateAIInsights.)
C11_InvalidJsonLeavesInsightsEmpty ==
  (Pushed /\ "ai_invalid_json" \in last.events) =>
    /\ ~Failed(NewestRecord)
    /\ \A f \in InsightFields :
         /\ NewestRecord[f] \in EmptyValues
         /\ last.ai[f] \in EmptyValues

SchemaValidInsights == GenerateOpenAIInsights("json_full").value

\* C13: the insights of a brand for which the AI API was asked are either a
\* schema-valid answer or those of the rule-based generator; an answer that
\* parses but is not schema-valid is never returned as the insights.
C13_OnlySchemaValidAccepted ==
  (Pushed /\ "ai_request" \in last.events) =>
    last.ai \in {SchemaValidInsights,
                 GenerateComprehensiveFallbackInsights(last.wd, last.va)}

\* C14: while a request to the AI API is pending, a timer that will abort it
\* is armed.
C14_AIRequestHasTimeout ==
  pc = "ai_await" => timeoutId

\* C17: the logo of a brand's visual assets is a logo found on the site or
\* is absent, never a generated placeholder image or the favicon, and the
\* same holds for the logo of its record.
C17_LogoFoundOrAbsent ==
  (Pushed /\ last.va # UnsetVisualAssets) =>
    /\ last.va.logo \in {"extracted", "null"}
    /\ ~Failed(NewestRecord) => NewestRecord.logo \in {"extracted", "null"}

\* b is a with exactly one more field non-empty and everything else equal
OneMoreField(a, b) ==
  \/ /\ a.visualAssets = b.visualAssets
     /\ \E f \in WebsiteFields :
          /\ a.websiteData[f] = 0
          /\ b.websiteData[f] > 0
          /\ \A g \in WebsiteFields \ {f} : a.websiteData[g] = b.websiteData[g]
  \/ /\ a.websiteData = b.websiteData
     /\ \E f \in ScoredVisualFields :
          /\ a.visualAssets[f] = 0
          /\ b.visualAssets[f] > 0
          /\ \A g \in ScoredVisualFields \ {f} :
               a.visualAssets[g] = b.visualAssets[g]

\* C15: two calls of calculateRealisticScores on identical website data and
\* visual assets return identical scores.
C15_ScoresDeterministic ==
  \A i, j \in 1..Len(returned) :
    returned[i].input = returned[j].input
      => returned[i].scores = returned[j].scores

\* C16: a call on a fixture with one more non-empty field, everything else
\* unchanged, never returns a lower overall score than the call before it.
C16_ScoreMonotone ==
  \A i, j \in 1..Len(returned) :
    (i < j /\ OneMoreField(returned[i].input, returned[j].input))
      => returned[j].scores.overall >= returned[i].scores.overall

\* the page has an opaque colour other than white and black
YieldsOtherColours(tokens) ==
  \E i \in 1..Len(tokens) :
    /\ tokens[i].form # "rgba"
    /\ tokens[i].colour \notin {White, Black}

\* C18: the palette of a page that yields other colours holds neither pure
\* white nor pure black, in any notation.
C18_NoPureWhiteOrBlack ==
  (returned # <<>> /\ YieldsOtherColours(fixture.tokens)) =>
    \A i \in 1..Len(returned[1]) :
      returned[1][i].colour \notin {White, Black}

\* C19: no two entries of the palette denote the same colour once both are
\* normalised to 6-digit lower-case hex, and the palette has at most 8
\* entries in the rendering variant and 6 in the static one.
C19_PaletteDistinctAndCapped ==
  returned # <<>> =>
    /\ \A i, j \in 1..Len(returned[1]) :
         i # j => returned[1][i].colour # returned[1][j].colour
    /\ Len(returned[1]) <= IF fixture.variant = "playwright" THEN 8 ELSE 6

\* the document has no piece t
Lacks(html, t) == \A i \in 1..Len(html) : html[i] # t

IsLabel(t) == t \in {"httpbin", "acme", "Acme", "com"}

\* labels joined by sep: "acme.com" with ".", "Acme com" with " "
Joined(s, sep, least) ==
  /\ Len(s) >= least
  /\ Len(s) % 2 = 1
  /\ \A i \in 1..Len(s) : IF i % 2 = 1 THEN IsLabel(s[i]) ELSE s[i] = sep

IsDomain(s) == Joined(s, ".", 3)

IsCompanyName(s) == Joined(s, " ", 1)

\* a host name: labels (written with one piece or several) between single
\* dots, at least two of them
IsHost(s) ==
  /\ Len(s) >= 3
  /\ \A i \in 1..Len(s) : IsLabel(s[i]) \/ s[i] = "."
  /\ \E i \in 1..Len(s) : s[i] = "."
  /\ s[1] # "." /\ s[Len(s)] # "."
  /\ \A i \in 1..(Len(s) - 1) : ~(s[i] = "." /\ s[i + 1] = ".")

\* scheme, "://" and a host name
IsAbsoluteUrl(s) ==
  /\ Len(s) >= 3
  /\ s[1] = "http"
  /\ s[2] = "s://"
  /\ IsHost(SubSeq(s, 3, Len(s)))

IsBrandIdentifier(s) == IsCompanyName(s) \/ IsDomain(s) \/ IsAbsoluteUrl(s)

\* C21: the website computed for a brand identifier (a company name, a
\* domain, or a URL with its scheme) is an absolute http(s) URL.
C21_InputBecomesAbsoluteUrl ==
  (returned # <<>> /\ IsBrandIdentifier(fixture))
    => IsAbsoluteUrl(returned[1].website)

\* the records of the response that carry an error
FailedRecords == {i \in 1..Len(analysisResults) : Failed(analysisResults[i])}

\* C22: in the report sent, totalBrands is the number of input brands,
\* successfulAnalyses is the number of records without an error, and the
\* successes and the failed records add up to totalBrands.
C22_SummaryAgreesWithRecords ==
  response = "200" =>
    /\ summary.totalBrands = Len(brands)
    /\ summary.successfulAnalyses
         = Len(analysisResults) - Cardinality(FailedRecords)
    /\ summary.successfulAnalyses + Cardinality(FailedRecords)
         = summary.totalBrands

\* a report on one failed brand and one successful brand whose record has
\* no score
C22_Witness ==
  /\ response = "200"
  /\ summary = [totalBrands |-> 2, successfulAnalyses |-> 1]
  /\ Cardinality(FailedRecords) = 1
  /\ \E i \in 1..Len(analysisResults) :
       ~Failed(analysisResults[i]) /\ ~Truthy(analysisResults[i].score)

\* number of characters of a keyword
KeywordLength(kw) ==
  CASE kw = "health" -> 6
    [] kw = "medical" -> 7
    [] kw = "clinical" -> 8
    [] kw = "patient" -> 7
    [] kw = "healthcare" -> 10
    [] kw = "medicine" -> 8
    [] kw = "pharmaceutical" -> 14
    [] kw = "diagnostic" -> 10
    [] kw = "therapy" -> 7
    [] kw = "software" -> 8
    [] kw = "technology" -> 10
    [] kw = "digital" -> 7
    [] kw = "platform" -> 8
    [] kw = "cloud" -> 5
    [] kw = "ai" -> 2
    [] kw = "artificial intelligence" -> 23
    [] kw = "saas" -> 4
    [] kw = "tech" -> 4
    [] kw = "financial" -> 9
    [] kw = "banking" -> 7
    [] kw = "investment" -> 10
    [] kw = "insurance" -> 9
    [] kw = "finance" -> 7
    [] kw = "wealth" -> 6
    [] kw = "trading" -> 7
    [] kw = "loan" -> 4
    [] kw = "credit" -> 6
    [] kw = "education" -> 9
    [] kw = "learning" -> 8
    [] kw = "university" -> 10
    [] kw = "school" -> 6
    [] kw = "academic" -> 8
    [] kw = "student" -> 7
    [] kw = "course" -> 6
    [] kw = "training" -> 8
    [] kw = "retail" -> 6
    [] kw = "shop" -> 4
    [] kw = "store" -> 5
    [] kw = "ecommerce" -> 9
    [] kw = "marketplace" -> 11
    [] kw = "buy" -> 3
    [] kw = "sell" -> 4
    [] kw = "product" -> 7
    [] kw = "consulting" -> 10
    [] kw = "advisory" -> 8
    [] kw = "professional services" -> 21
    [] kw = "strategy" -> 8
    [] kw = "management" -> 10
    [] kw = "expertise" -> 9

\* the keywords found in the text, and the longest among them
MatchedKeywords(text) == {kw \in AllKeywords : ContentIncludes(text, kw)}

LongestMatched(text) ==
  {kw \in MatchedKeywords(text) :
     \A o \in MatchedKeywords(text) : KeywordLength(kw) >= KeywordLength(o)}

\* the category of the longest keyword found, the first in priority order
\* when several categories have one of that length
MostSpecificIndustry(text) ==
  LET cats == {k \in 1..Len(IndustryKeywords) :
                 IndustryKeywords[k] \cap LongestMatched(text) # {}}
  IN IF cats = {} THEN "General Business"
     ELSE IndustryNames[CHOOSE k \in cats : \A j \in cats : k <= j]

\* C23: the classifier returns the category of the longest keyword found in
\* the text, by priority order among categories that tie, and the general
\* label only when no keyword is found.
C23_LongestMatchWins ==
  returned # <<>> => returned[1] = MostSpecificIndustry(fixture)

\* the category whose if statement lists the keyword
IndustryOf(kw) ==
  IndustryNames[CHOOSE k \in 1..Len(IndustryKeywords) :
                  kw \in IndustryKeywords[k]]

\* C29: a text whose only keyword word is kw (next to words that are no
\* keywords) is classified into the category that lists kw.
C29_EveryKeywordReachesItsIndustry ==
  \A kw \in AllKeywords :
    (/\ returned # <<>>
     /\ \E i \in 1..Len(fixture) : fixture[i] = kw
     /\ \A i \in 1..Len(fixture) : fixture[i] \in {kw, "welcome"})
      => returned[1] = IndustryOf(kw)

\* an image the cascade is looking for: alt, src or class contains "logo",
\* and it has a src
IsLogoImage(el) == el.mark \in {"alt", "src", "class"} /\ el.src # "missing"

InHeaderOrNav(el) == el.region \in {"header", "nav"}

\* C24: when a logo image stands in the header or nav, the logo returned is
\* one from the header or nav, not one from the rest of the document; and a
\* logo URL returned is absolute.
C24_HeaderNavFirstAndAbsolute ==
  returned # <<>> =>
    /\ returned[1].found => returned[1].url.form = "absolute"
    /\ (\E i \in 1..Len(fixture) :
          IsLogoImage(fixture[i]) /\ InHeaderOrNav(fixture[i]))
         => /\ returned[1].found
            /\ InHeaderOrNav(fixture[returned[1].element])

GenericFontKeywords == {"serif", "sans-serif"}

\* C25: a fonts list returned by font extraction holds no generic fallback
\* keyword and no font twice.
C25_NoGenericNoDuplicateFonts ==
  returned # <<>> =>
    LET fonts == returned[1].fonts
    IN /\ \A i \in 1..Len(fonts) : fonts[i] \notin GenericFontKeywords
       /\ \A i, j \in 1..Len(fonts) : fonts[i] = fonts[j] => i = j

\* C26: in the visual assets returned, each of logo, colours and fonts is
\* the value its own sub-extraction returns for what that sub-extraction
\* met, whatever the other two met (values, nothing or an exception).
C26_SubExtractionsIndependent ==
  (returned # <<>> /\ returned[1].resolved) =>
    \A field \in {"logo", "colors", "fonts"} :
      returned[1][field] = SubReturned(field, fixture.extractor, fixture[field])

C26_Witness ==
  /\ returned # <<>>
  /\ returned[1].resolved
  /\ fixture.logo = "throws"
  /\ fixture.fonts = "empty"
  /\ returned[1].colors = "extracted"

\* the pipeline of a brand is between its fetch and its record
InFlight == pc \notin {"idle", "start", "loop", "done"}

IsInsightsValue(v) == ~v.isNull /\ v.overallScore # "null"

\* C28: whatever the AI request and the fallback generator do, the call of
\* generateAIInsights does not reject and resolves with an insights value.
C28_AlwaysResolvesWithInsights ==
  returned # <<>> =>
    /\ ~returned[1].rejected
    /\ IsInsightsValue(returned[1].value)

\* C30: once a poll response with status completed or failed has been
\* handled, no polling interval runs and the section shown is the one that
\* response selected (results for completed, error for failed).
C30_TerminalStatusIsFinal ==
  progressPage.handled # "none" =>
    /\ progressPage.interval = "none"
    /\ progressPage.section =
         (IF progressPage.handled = "completed" THEN "results" ELSE "error")

====
